---- MODULE Spec2Model ----
(***************************************************************************)
(* Model of libmicrohttpd's send() wrappers (src/microhttpd/mhd_send.c):   *)
(* the buffering-mode hooks pre_send_setopt / post_send_setopt and the     *)
(* three transmission entry points MHD_send_on_connection_,                *)
(* MHD_send_on_connection2_ and MHD_send_sendfile_, for one connection.    *)
(*                                                                         *)
(* The conditional compilation of the file is a record `build` fixed in    *)
(* the initial state; the kernel (socket mode, result of every primitive)  *)
(* is the environment and is chosen nondeterministically at each call.     *)
(***************************************************************************)
EXTENDS Integers, Sequences, FiniteSets, TLC

VARIABLES
  build,          \* the preprocessor configuration of the build
  daemon_options, \* connection->daemon->options (MHD_USE_TLS, MHD_USE_THREAD_PER_CONNECTION)
  response,       \* connection->response: fd_off, total_size
  connection,     \* the fields of struct MHD_Connection this file reads or writes
  sock,           \* kernel side of the socket: its real cork / no-delay mode
  buf_pos,        \* caller: number of bytes of Stream already reported as sent
  wire,           \* bytes the peer has received from the socket send primitives
  last            \* record of the last call of an entry point (history)

vars == <<build, daemon_options, response, connection, sock, buf_pos, wire, last>>

----------------------------------------------------------------------------
(* Bounds of the model *)

\* length of the byte stream the caller sends through the dispatcher
BufLen == 3
\* scaled stand-in of SSIZE_MAX, the clamp of the TLS path (line 355)
SSIZE_MAX == 2
\* scaled stand-in of MHD_SCKT_SEND_MAX_SIZE_, the clamp of the plaintext path (line 386)
MHD_SCKT_SEND_MAX_SIZE_ == 2
\* a transfer primitive offered len bytes accepts 0 or at least len - MaxShort bytes
MaxShort == 1
\* scaled stand-in of OFF_T_MAX / OFF64_T_MAX (lines 543, 545)
OFF_T_MAX == 4194304
\* size of the small file response
SmallFile == 3
\* size of the largest header of the specification SpecPolicy
MaxHeader == 2000

(* Program constants *)

MHD_SENFILE_CHUNK_ == 131072
MHD_SENFILE_CHUNK_THR_P_C_ == 2097152

\* the logical byte stream of the caller: pairwise different bytes
Stream == [i \in 1..BufLen |-> i]

Min(a, b) == IF a < b THEN a ELSE b

----------------------------------------------------------------------------
(* Values of ssize_t returned by the entry points.  A number is a plain    *)
(* ssize_t (a byte count, or a raw result of a primitive such as -1); the  *)
(* MHD_ERR_*_ codes are kept symbolic.                                     *)

Ssize(n) == [kind |-> "ssize_t", n |-> n]
MHD_ERR_AGAIN_ == [kind |-> "MHD_ERR_AGAIN_", n |-> 0]
MHD_ERR_CONNRESET_ == [kind |-> "MHD_ERR_CONNRESET_", n |-> 0]
MHD_ERR_NOTCONN_ == [kind |-> "MHD_ERR_NOTCONN_", n |-> 0]
MHD_ERR_BADF_ == [kind |-> "MHD_ERR_BADF_", n |-> 0]

IsCount(r) == r.kind = "ssize_t" /\ r.n >= 0
IsRaw(r) == r.kind = "ssize_t" /\ r.n < 0
IsRetry(r) == r = MHD_ERR_AGAIN_
IsFatal(r) == r \in {MHD_ERR_CONNRESET_, MHD_ERR_NOTCONN_, MHD_ERR_BADF_}

----------------------------------------------------------------------------
(* Environment: results of the primitives *)

\* errno values after a failed send(), sendmsg() or writev()
SendErrnos == {"EAGAIN", "EINTR", "ECONNRESET", "EPIPE"}

\* errno values after a failed sendfile()
SendfileErrnos == {"EAGAIN", "EINTR", "EBUSY", "EBADF", "EINVAL", "EPIPE",
                   "ENOTSUP", "EOPNOTSUPP"}

\* errno values with which the BSD sendfile() reports partial progress
PartialErrnos == {"EAGAIN", "EINTR", "EBUSY"}

\* negative results of gnutls_record_send()
GnutlsErrors == {"GNUTLS_E_AGAIN", "GNUTLS_E_INTERRUPTED", "GNUTLS_E_INVALID_SESSION"}

\* byte counts a primitive may accept when offered len bytes
Accepts(len) == {0} \cup ((IF len > MaxShort THEN len - MaxShort ELSE 0)..len)

\* outcomes of a primitive offered len bytes: n bytes taken, or failure with
\* errno err (n is then the partial progress, which only the BSD sendfile
\* variants report)
XferOk(n) == [ok |-> TRUE, n |-> n, err |-> "none"]
XferFail(e, n) == [ok |-> FALSE, n |-> n, err |-> e]
SocketOutcomes(len) ==
  {XferOk(n) : n \in Accepts(len)} \cup {XferFail(e, 0) : e \in SendErrnos}
TlsOutcomes(len) ==
  {XferOk(n) : n \in Accepts(len)} \cup {XferFail(e, 0) : e \in GnutlsErrors}

MHD_SCKT_ERR_IS_EAGAIN_(err) == err = "EAGAIN"
MHD_SCKT_ERR_IS_EINTR_(err) == err = "EINTR"

\* return value of MHD_socket_cork_: non-zero if succeeded, zero otherwise
MHD_socket_cork_(ok) == IF ok THEN 1 ELSE 0
\* return value of MHD_socket_set_nodelay_: 0 on success
MHD_socket_set_nodelay_(ok) == IF ok THEN 0 ELSE -1

----------------------------------------------------------------------------
(* Buffering-mode hooks.  Each yields the connection after the hook, the   *)
(* record of its own invocation (runs) and the list of mode-setting        *)
(* primitive invocations it made (calls).  `ok` is the kernel's answer if  *)
(* the primitive is invoked.                                               *)

PrimCall(hook, prim, on, cached, ok) ==
  [hook |-> hook, prim |-> prim, on |-> on, cached |-> cached, ok |-> ok]

HookRun(hook, plain_send, push_data) ==
  [hook |-> hook, plain_send |-> plain_send, push_data |-> push_data]

Hooked(c, run, calls) == [conn |-> c, runs |-> <<run>>, calls |-> calls]

\* pre_send_setopt without the comparisons of the cached flag with the
\* wanted mode (lines 141 and 194)
pre_send_setopt_NoCacheCheck(c, plain_send, push_data, ok) ==
  LET buffer_data == ~push_data
      run == HookRun("pre", plain_send, push_data)
  IN
  IF build.MHD_USE_MSG_MORE /\ plain_send
  THEN Hooked(c, run, <<>>)
  ELSE IF build.MHD_TCP_CORK_NOPUSH
       THEN IF push_data
            THEN Hooked(c, run, <<>>)
            ELSE Hooked(IF 0 # MHD_socket_cork_(ok)
                        THEN [c EXCEPT !.sk_corked = buffer_data]
                        ELSE c, run,
                        <<PrimCall("pre", "MHD_socket_cork_", buffer_data,
                                   c.sk_corked, ok)>>)
       ELSE Hooked(IF 0 = MHD_socket_set_nodelay_(ok)
                   THEN [c EXCEPT !.sk_nodelay = push_data]
                   ELSE c, run,
                   <<PrimCall("pre", "MHD_socket_set_nodelay_", push_data,
                              c.sk_nodelay, ok)>>)

\* pre_send_setopt updating the cached flag whatever the primitive returns
pre_send_setopt_CachesOnFailure(c, plain_send, push_data, ok) ==
  LET buffer_data == ~push_data
      run == HookRun("pre", plain_send, push_data)
  IN
  IF build.MHD_USE_MSG_MORE /\ plain_send
  THEN Hooked(c, run, <<>>)
  ELSE IF build.MHD_TCP_CORK_NOPUSH
       THEN IF c.sk_corked = buffer_data
            THEN Hooked(c, run, <<>>)
            ELSE IF push_data
                 THEN Hooked(c, run, <<>>)
                 ELSE Hooked([c EXCEPT !.sk_corked = buffer_data], run,
                             <<PrimCall("pre", "MHD_socket_cork_", buffer_data,
                                        c.sk_corked, ok)>>)
       ELSE IF c.sk_nodelay = push_data
            THEN Hooked(c, run, <<>>)
            ELSE Hooked([c EXCEPT !.sk_nodelay = push_data], run,
                        <<PrimCall("pre", "MHD_socket_set_nodelay_", push_data,
                                   c.sk_nodelay, ok)>>)

pre_send_setopt(c, plain_send, push_data, ok) ==
  LET buffer_data == ~push_data
      run == HookRun("pre", plain_send, push_data)
  IN
  IF build.MHD_USE_MSG_MORE /\ plain_send
  THEN Hooked(c, run, <<>>)
  ELSE IF build.MHD_TCP_CORK_NOPUSH
       THEN IF c.sk_corked = buffer_data
            THEN Hooked(c, run, <<>>)
            ELSE IF push_data
                 THEN Hooked(c, run, <<>>)
                 ELSE Hooked(IF 0 # MHD_socket_cork_(ok)
                             THEN [c EXCEPT !.sk_corked = buffer_data]
                             ELSE c, run,
                             <<PrimCall("pre", "MHD_socket_cork_", buffer_data,
                                        c.sk_corked, ok)>>)
       ELSE IF c.sk_nodelay = push_data
            THEN Hooked(c, run, <<>>)
            ELSE Hooked(IF 0 = MHD_socket_set_nodelay_(ok)
                        THEN [c EXCEPT !.sk_nodelay = push_data]
                        ELSE c, run,
                        <<PrimCall("pre", "MHD_socket_set_nodelay_", push_data,
                                   c.sk_nodelay, ok)>>)

\* post_send_setopt without the comparison of the cached flag with the
\* wanted mode (line 238)
post_send_setopt_NoCacheCheck(c, plain_send, push_data, ok) ==
  LET buffer_data == ~push_data
      run == HookRun("post", plain_send, push_data)
  IN
  IF build.MHD_USE_MSG_MORE /\ plain_send
  THEN Hooked(c, run, <<>>)
  ELSE IF build.MHD_TCP_CORK_NOPUSH
       THEN IF buffer_data
            THEN Hooked(c, run, <<>>)
            ELSE Hooked(IF 0 # MHD_socket_cork_(ok)
                        THEN [c EXCEPT !.sk_corked = buffer_data]
                        ELSE c, run,
                        <<PrimCall("post", "MHD_socket_cork_", buffer_data,
                                   c.sk_corked, ok)>>)
       ELSE Hooked(c, run, <<>>)

post_send_setopt(c, plain_send, push_data, ok) ==
  LET buffer_data == ~push_data
      run == HookRun("post", plain_send, push_data)
  IN
  IF build.MHD_USE_MSG_MORE /\ plain_send
  THEN Hooked(c, run, <<>>)
  ELSE IF build.MHD_TCP_CORK_NOPUSH
       THEN IF c.sk_corked = buffer_data
            THEN Hooked(c, run, <<>>)
            ELSE IF buffer_data
                 THEN Hooked(c, run, <<>>)
                 ELSE Hooked(IF 0 # MHD_socket_cork_(ok)
                             THEN [c EXCEPT !.sk_corked = buffer_data]
                             ELSE c, run,
                             <<PrimCall("post", "MHD_socket_cork_", buffer_data,
                                        c.sk_corked, ok)>>)
       ELSE Hooked(c, run, <<>>)

----------------------------------------------------------------------------
(* Transmission entry points.  Each yields the connection after the call,  *)
(* the value returned, the hook invocations (runs), the mode-setting       *)
(* primitive invocations (calls) and the data-transfer primitive           *)
(* invocations (xfers) the call made.                                      *)
(* env.ok_pre / env.ok_post: the kernel's answer to a mode-setting         *)
(* primitive invoked by the pre / post hook; env.out: the outcome of the   *)
(* data-transfer primitive.                                                *)

Result(c, ret, runs, calls, xfers) ==
  [conn |-> c, ret |-> ret, runs |-> runs, calls |-> calls, xfers |-> xfers]

\* one invocation of a data-transfer primitive
Xfer(prim, data, off, len, flags, out) ==
  [prim |-> prim, data |-> data, off |-> off, len |-> len, flags |-> flags,
   out |-> out]

\* connection->epoll_state &= ~MHD_EPOLL_STATE_WRITE_READY, under EPOLL_SUPPORT
ClearWriteReady(c) ==
  IF build.EPOLL_SUPPORT THEN [c EXCEPT !.epoll_write_ready = FALSE] ELSE c

tls_conn == build.HTTPS_SUPPORT /\ daemon_options.MHD_USE_TLS

SendOptions == {"MHD_SSO_PUSH_DATA", "MHD_SSO_PREFER_BUFF", "MHD_SSO_HDR_CORK"}

\* the switch on options with the header pushed from 1024 bytes on
PushData_From1024(options, buffer_size) ==
  CASE options = "MHD_SSO_PUSH_DATA" -> TRUE
    [] options = "MHD_SSO_PREFER_BUFF" -> FALSE
    [] options = "MHD_SSO_HDR_CORK" -> buffer_size >= 1024

\* the switch on options, lines 335-349
PushData(options, buffer_size) ==
  CASE options = "MHD_SSO_PUSH_DATA" -> TRUE
    [] options = "MHD_SSO_PREFER_BUFF" -> FALSE
    [] options = "MHD_SSO_HDR_CORK" -> buffer_size > 1024

\* classification of a failed plaintext send(), lines 401-419
SendError(c, err) ==
  IF MHD_SCKT_ERR_IS_EAGAIN_(err)
  THEN [conn |-> ClearWriteReady(c), ret |-> MHD_ERR_AGAIN_]
  ELSE IF MHD_SCKT_ERR_IS_EINTR_(err)
       THEN [conn |-> c, ret |-> MHD_ERR_AGAIN_]
       ELSE IF err = "ECONNRESET"
            THEN [conn |-> c, ret |-> MHD_ERR_CONNRESET_]
            ELSE [conn |-> c, ret |-> MHD_ERR_NOTCONN_]

\* plain_send argument given to post_send_setopt by MHD_send_on_connection_, line 425
PostPlainSend(tls) == tls

\* the tail of MHD_send_on_connection_ returning the size it offered
\* instead of the count the primitive reported
SendFinish_ReturnsOffered(c, pre, xfers, tls, push_data, buffer_size, ret, ok_post) ==
  LET post == post_send_setopt(c, PostPlainSend(tls),
                               push_data /\ (buffer_size = ret), ok_post)
  IN  Result(post.conn, Ssize(buffer_size), pre.runs \o post.runs,
             pre.calls \o post.calls, xfers)

\* the tail of MHD_send_on_connection_ selecting sendfile() again after a
\* complete transfer
SendFinish_RestoresSendfile(c, pre, xfers, tls, push_data, buffer_size, ret, ok_post) ==
  LET post == post_send_setopt(c, PostPlainSend(tls),
                               push_data /\ (buffer_size = ret), ok_post)
  IN  Result(IF buffer_size = ret
             THEN [post.conn EXCEPT !.resp_sender = "MHD_resp_sender_sendfile"]
             ELSE post.conn,
             Ssize(ret), pre.runs \o post.runs, pre.calls \o post.calls, xfers)

\* the tail of MHD_send_on_connection_ offering the buffer once more after
\* a partial transfer
SendFinish_RetriesPartial(c, pre, xfers, tls, push_data, buffer_size, ret, ok_post) ==
  LET post == post_send_setopt(c, PostPlainSend(tls),
                               push_data /\ (buffer_size = ret), ok_post)
  IN  Result(post.conn, Ssize(ret), pre.runs \o post.runs,
             pre.calls \o post.calls,
             IF ret < buffer_size THEN xfers \o xfers ELSE xfers)

\* the tail of MHD_send_on_connection_, lines 425-428
SendFinish(c, pre, xfers, tls, push_data, buffer_size, ret, ok_post) ==
  LET post == post_send_setopt(c, PostPlainSend(tls),
                               push_data /\ (buffer_size = ret), ok_post)
  IN  Result(post.conn, Ssize(ret), pre.runs \o post.runs,
             pre.calls \o post.calls, xfers)

MHD_send_on_connection_(c, buffer, options, env) ==
  IF (~c.socket_valid) \/ c.state = "MHD_CONNECTION_CLOSED"
  THEN Result(c, MHD_ERR_NOTCONN_, <<>>, <<>>, <<>>)
  ELSE
    LET push_data == PushData(options, Len(buffer))
        pre == pre_send_setopt(c, ~tls_conn, push_data, env.ok_pre)
    IN
    IF tls_conn
    THEN \* gnutls_record_send(), lines 355-374
      LET buffer_size == Min(Len(buffer), SSIZE_MAX)
          x == Xfer("gnutls_record_send", SubSeq(buffer, 1, buffer_size),
                    0, buffer_size, "0", env.out)
      IN  IF env.out.err \in {"GNUTLS_E_AGAIN", "GNUTLS_E_INTERRUPTED"}
          THEN Result(IF env.out.err = "GNUTLS_E_AGAIN"
                      THEN ClearWriteReady(pre.conn) ELSE pre.conn,
                      MHD_ERR_AGAIN_, pre.runs, pre.calls, <<x>>)
          ELSE IF ~env.out.ok
               THEN Result(pre.conn, MHD_ERR_NOTCONN_, pre.runs, pre.calls, <<x>>)
               ELSE SendFinish(pre.conn, pre, <<x>>, tls_conn, push_data,
                               buffer_size, env.out.n, env.ok_post)
    ELSE \* plaintext transmission, lines 385-423
      LET buffer_size == Min(Len(buffer), MHD_SCKT_SEND_MAX_SIZE_)
          x == Xfer("MHD_send4_", SubSeq(buffer, 1, buffer_size), 0, buffer_size,
                    IF build.MHD_USE_MSG_MORE /\ ~push_data THEN "MSG_MORE" ELSE "0",
                    env.out)
      IN  IF ~env.out.ok
          THEN LET e == SendError(pre.conn, env.out.err)
               IN  Result(e.conn, e.ret, pre.runs, pre.calls, <<x>>)
          ELSE SendFinish(IF buffer_size > env.out.n
                          THEN ClearWriteReady(pre.conn) ELSE pre.conn,
                          pre, <<x>>, tls_conn, push_data,
                          buffer_size, env.out.n, env.ok_post)

\* value of ret after sendmsg() / writev(), lines 495-508: the raw result
VectorRet(out) == IF out.ok THEN out.n ELSE -1

\* MHD_send_on_connection2_ handing the header and the body to
\* MHD_send_on_connection_ where it cannot use sendmsg() / writev()
MHD_send_on_connection2_SendsBodyToo(c, header, buffer, env) ==
  IF tls_conn
  THEN MHD_send_on_connection_(c, header \o buffer, "MHD_SSO_HDR_CORK", env)
  ELSE IF build.HAVE_SENDMSG_OR_WRITEV
       THEN
         LET pre == pre_send_setopt(c, ~tls_conn, TRUE, env.ok_pre)
             x == Xfer("sendmsg", header \o buffer, 0, Len(header) + Len(buffer),
                       "0", env.out)
             ret == VectorRet(env.out)
         IN  IF ret = -1 /\ env.out.err = "EAGAIN"
             THEN Result(pre.conn, MHD_ERR_AGAIN_, pre.runs, pre.calls, <<x>>)
             ELSE LET post == post_send_setopt(pre.conn, ~tls_conn,
                                Len(header) + Len(buffer) = ret, env.ok_post)
                  IN  Result(post.conn, Ssize(ret), pre.runs \o post.runs,
                             pre.calls \o post.calls, <<x>>)
       ELSE MHD_send_on_connection_(c, header \o buffer, "MHD_SSO_HDR_CORK", env)

\* MHD_send_on_connection2_ requesting the flush after every sendmsg() /
\* writev() that did not fail with EAGAIN
MHD_send_on_connection2_FlushesPartial(c, header, buffer, env) ==
  IF tls_conn
  THEN MHD_send_on_connection_(c, header, "MHD_SSO_HDR_CORK", env)
  ELSE IF build.HAVE_SENDMSG_OR_WRITEV
       THEN
         LET pre == pre_send_setopt(c, ~tls_conn, TRUE, env.ok_pre)
             x == Xfer("sendmsg", header \o buffer, 0, Len(header) + Len(buffer),
                       "0", env.out)
             ret == VectorRet(env.out)
         IN  IF ret = -1 /\ env.out.err = "EAGAIN"
             THEN Result(pre.conn, MHD_ERR_AGAIN_, pre.runs, pre.calls, <<x>>)
             ELSE LET post == post_send_setopt(pre.conn, ~tls_conn,
                                               TRUE, env.ok_post)
                  IN  Result(post.conn, Ssize(ret), pre.runs \o post.runs,
                             pre.calls \o post.calls, <<x>>)
       ELSE MHD_send_on_connection_(c, header, "MHD_SSO_HDR_CORK", env)

MHD_send_on_connection2_(c, header, buffer, env) ==
  IF tls_conn
  THEN MHD_send_on_connection_(c, header, "MHD_SSO_HDR_CORK", env)
  ELSE IF build.HAVE_SENDMSG_OR_WRITEV
       THEN
         LET pre == pre_send_setopt(c, ~tls_conn, TRUE, env.ok_pre)
             x == Xfer("sendmsg", header \o buffer, 0, Len(header) + Len(buffer),
                       "0", env.out)
             ret == VectorRet(env.out)
         IN  IF ret = -1 /\ env.out.err = "EAGAIN"
             THEN Result(pre.conn, MHD_ERR_AGAIN_, pre.runs, pre.calls, <<x>>)
             ELSE LET post == post_send_setopt(pre.conn, ~tls_conn,
                                Len(header) + Len(buffer) = ret, env.ok_post)
                  IN  Result(post.conn, Ssize(ret), pre.runs \o post.runs,
                             pre.calls \o post.calls, <<x>>)
       ELSE MHD_send_on_connection_(c, header, "MHD_SSO_HDR_CORK", env)

----------------------------------------------------------------------------
(* Zero-copy file transmission *)

SendfileVariants == {"linux", "solaris", "freebsd", "darwin"}

\* outcomes of the platform's sendfile() offered len bytes: the BSD variants
\* report partial progress together with a failure and FreeBSD reports
\* success only with sent_bytes > 0 (line 669)
SendfileOutcomes(variant, len) ==
  CASE variant \in {"linux", "solaris"} ->
         {XferOk(n) : n \in Accepts(len)}
         \cup {XferFail(e, 0) : e \in SendfileErrnos}
    [] variant = "freebsd" ->
         {XferOk(n) : n \in Accepts(len) \ {0}}
         \cup {XferFail(e, 0) : e \in SendfileErrnos}
         \cup {XferFail(e, n) : e \in PartialErrnos, n \in Accepts(len)}
    [] variant = "darwin" ->
         {XferOk(n) : n \in Accepts(len)}
         \cup {XferFail(e, 0) : e \in SendfileErrnos}
         \cup {XferFail(e, n) : e \in PartialErrnos \ {"EBUSY"}, n \in Accepts(len)}

\* the connection after "Retry to send with standard 'send()'", lines 579, 618, 625, 666, 700
Downgrade(c) == [c EXCEPT !.resp_sender = "MHD_resp_sender_std"]

\* the two chunk sizes exchanged
ChunkSize_Exchanged(used_thr_p_c) ==
  IF used_thr_p_c THEN MHD_SENFILE_CHUNK_ ELSE MHD_SENFILE_CHUNK_THR_P_C_

\* lines 563-564
ChunkSize(used_thr_p_c) ==
  IF used_thr_p_c THEN MHD_SENFILE_CHUNK_THR_P_C_ ELSE MHD_SENFILE_CHUNK_

\* the chunk size, not clamped to the bytes left
SendSize_NoClamp(left, chunk_size) == chunk_size

\* line 576
SendSize(left, chunk_size) == IF left > chunk_size THEN chunk_size ELSE left

\* the offset check off by one
OffsetTooBig_OffByOne(offsetu64) == OFF_T_MAX + 1 < offsetu64

\* line 577
OffsetTooBig(offsetu64) == OFF_T_MAX < offsetu64

\* error handling of the Linux / Solaris variant with the downgrade also on
\* the hard failures
SendfileErrorLinuxSolaris_DowngradesHard(c, err) ==
  IF MHD_SCKT_ERR_IS_EAGAIN_(err)
  THEN [conn |-> ClearWriteReady(c), ret |-> MHD_ERR_AGAIN_]
  ELSE IF MHD_SCKT_ERR_IS_EINTR_(err)
  THEN [conn |-> c, ret |-> MHD_ERR_AGAIN_]
  ELSE IF build.sendfile = "linux"
  THEN IF err = "EBADF"
       THEN [conn |-> Downgrade(c), ret |-> MHD_ERR_BADF_]
       ELSE [conn |-> Downgrade(c), ret |-> MHD_ERR_AGAIN_]
  ELSE IF err \in {"EAFNOSUPPORT", "EINVAL", "EOPNOTSUPP"}
       THEN [conn |-> Downgrade(c), ret |-> MHD_ERR_AGAIN_]
       ELSE IF err \in {"ENOTCONN", "EPIPE"}
            THEN [conn |-> Downgrade(c), ret |-> MHD_ERR_CONNRESET_]
            ELSE [conn |-> Downgrade(c), ret |-> MHD_ERR_BADF_]

\* error handling of the Linux / Solaris variant, lines 596-635
SendfileErrorLinuxSolaris(c, err) ==
  IF MHD_SCKT_ERR_IS_EAGAIN_(err)
  THEN [conn |-> ClearWriteReady(c), ret |-> MHD_ERR_AGAIN_]
  ELSE IF MHD_SCKT_ERR_IS_EINTR_(err)
  THEN [conn |-> c, ret |-> MHD_ERR_AGAIN_]
  ELSE IF build.sendfile = "linux"
  THEN IF err = "EBADF"
       THEN [conn |-> c, ret |-> MHD_ERR_BADF_]
       ELSE [conn |-> Downgrade(c), ret |-> MHD_ERR_AGAIN_]
  ELSE IF err \in {"EAFNOSUPPORT", "EINVAL", "EOPNOTSUPP"}
       THEN [conn |-> Downgrade(c), ret |-> MHD_ERR_AGAIN_]
       ELSE IF err \in {"ENOTCONN", "EPIPE"}
            THEN [conn |-> c, ret |-> MHD_ERR_CONNRESET_]
            ELSE [conn |-> c, ret |-> MHD_ERR_BADF_]

\* error handling of the FreeBSD variant dropping the partial progress
SendfileErrorFreeBSD_DropsPartial(c, err, sent_bytes) ==
  IF MHD_SCKT_ERR_IS_EAGAIN_(err) \/ MHD_SCKT_ERR_IS_EINTR_(err) \/ err = "EBUSY"
  THEN [conn |-> c, ret |-> MHD_ERR_AGAIN_]
  ELSE [conn |-> Downgrade(c), ret |-> MHD_ERR_AGAIN_]

\* error handling of the FreeBSD variant, lines 652-668
SendfileErrorFreeBSD(c, err, sent_bytes) ==
  IF MHD_SCKT_ERR_IS_EAGAIN_(err) \/ MHD_SCKT_ERR_IS_EINTR_(err) \/ err = "EBUSY"
  THEN IF 0 # sent_bytes
       THEN [conn |-> c, ret |-> Ssize(sent_bytes)]
       ELSE [conn |-> c, ret |-> MHD_ERR_AGAIN_]
  ELSE [conn |-> Downgrade(c), ret |-> MHD_ERR_AGAIN_]

\* error handling of the Darwin variant, lines 680-704
SendfileErrorDarwin(c, err, len) ==
  IF MHD_SCKT_ERR_IS_EAGAIN_(err) \/ MHD_SCKT_ERR_IS_EINTR_(err)
  THEN IF 0 # len
       THEN [conn |-> c, ret |-> Ssize(len)]
       ELSE [conn |-> c, ret |-> MHD_ERR_AGAIN_]
  ELSE IF err \in {"ENOTCONN", "EPIPE"}
       THEN [conn |-> c, ret |-> MHD_ERR_CONNRESET_]
       ELSE IF err \in {"ENOTSUP", "EOPNOTSUPP"}
            THEN [conn |-> Downgrade(c), ret |-> MHD_ERR_AGAIN_]
            ELSE [conn |-> c, ret |-> MHD_ERR_BADF_]

MHD_send_sendfile_(c, env) ==
  LET used_thr_p_c == daemon_options.MHD_USE_THREAD_PER_CONNECTION
      chunk_size == ChunkSize(used_thr_p_c)
      pre == pre_send_setopt(c, FALSE, TRUE, env.ok_pre)
      offsetu64 == c.response_write_position + response.fd_off
      left == response.total_size - c.response_write_position
      send_size == SendSize(left, chunk_size)
      x == Xfer("sendfile", <<>>, offsetu64, send_size, "0", env.out)
  IN
  IF OffsetTooBig(offsetu64)
  THEN Result(Downgrade(pre.conn), MHD_ERR_AGAIN_, pre.runs, pre.calls, <<>>)
  ELSE IF ~env.out.ok
  THEN LET e == CASE build.sendfile \in {"linux", "solaris"} ->
                       SendfileErrorLinuxSolaris(pre.conn, env.out.err)
                  [] build.sendfile = "freebsd" ->
                       SendfileErrorFreeBSD(pre.conn, env.out.err, env.out.n)
                  [] build.sendfile = "darwin" ->
                       SendfileErrorDarwin(pre.conn, env.out.err, env.out.n)
       IN  Result(e.conn, e.ret, pre.runs, pre.calls, <<x>>)
  ELSE LET ret == env.out.n
           c1 == IF build.sendfile \in {"linux", "solaris"} /\ send_size > ret
                 THEN ClearWriteReady(pre.conn) ELSE pre.conn
           post == post_send_setopt(c1, FALSE, left = ret, env.ok_post)
       IN  Result(post.conn, Ssize(ret), pre.runs \o post.runs,
                  pre.calls \o post.calls, <<x>>)

----------------------------------------------------------------------------------------------------------------------------------------------
(* The state machine: one connection, its caller and the kernel *)

\* the file setup of a connection that never calls sendfile()
PlainFile ==
  [sendfile |-> "linux", thr_p_c |-> FALSE, fd_off |-> 0, total_size |-> SmallFile]

\* the configurations of the dispatcher: every combination of the flush
\* flag, the cork primitive, scatter-gather and TLS (a TLS daemon exists
\* only in an HTTPS build, and never reaches the scatter-gather call)
DispatchSetups ==
  {d \in [MHD_USE_MSG_MORE : BOOLEAN, MHD_TCP_CORK_NOPUSH : BOOLEAN,
          HAVE_SENDMSG_OR_WRITEV : BOOLEAN, HTTPS_SUPPORT : BOOLEAN] :
     d.HTTPS_SUPPORT => d.HAVE_SENDMSG_OR_WRITEV}

\* the configurations of the file transmitter: each sendfile() variant with
\* a small file and, for one variant (the code before line 582 is common to
\* all), a small file whose range ends beyond the largest offset and a file
\* one byte longer than the chunk size in use
FileSetups ==
  {f \in [sendfile : SendfileVariants, thr_p_c : BOOLEAN,
          fd_off : {0, OFF_T_MAX - 1},
          total_size : {SmallFile, MHD_SENFILE_CHUNK_ + 1,
                        MHD_SENFILE_CHUNK_THR_P_C_ + 1}] :
     \/ f.total_size = SmallFile /\ ~f.thr_p_c /\ f.fd_off = 0
     \/ f.total_size = SmallFile /\ ~f.thr_p_c /\ f.sendfile = "linux"
     \/ /\ f.fd_off = 0
        /\ f.sendfile = "linux"
        /\ f.total_size = 1 + (IF f.thr_p_c THEN MHD_SENFILE_CHUNK_THR_P_C_
                                            ELSE MHD_SENFILE_CHUNK_)}

\* epoll exists on Linux only; a TLS connection never uses sendfile(), and
\* a build without scatter-gather differs from one with it only in
\* MHD_send_on_connection2_: these are paired with one file setup
Init ==
  /\ \E d \in DispatchSetups, f \in FileSetups, epoll \in BOOLEAN :
       /\ epoll => f = PlainFile
       /\ d.HTTPS_SUPPORT => f = PlainFile
       /\ ~d.HAVE_SENDMSG_OR_WRITEV => f = PlainFile /\ ~epoll
       /\ build = [MHD_USE_MSG_MORE |-> d.MHD_USE_MSG_MORE,
                   MHD_TCP_CORK_NOPUSH |-> d.MHD_TCP_CORK_NOPUSH,
                   HTTPS_SUPPORT |-> d.HTTPS_SUPPORT,
                   HAVE_SENDMSG_OR_WRITEV |-> d.HAVE_SENDMSG_OR_WRITEV,
                   EPOLL_SUPPORT |-> epoll,
                   sendfile |-> f.sendfile]
       /\ daemon_options = [MHD_USE_TLS |-> d.HTTPS_SUPPORT,
                            MHD_USE_THREAD_PER_CONNECTION |-> f.thr_p_c]
       /\ response = [fd_off |-> f.fd_off, total_size |-> f.total_size]
  /\ connection =
       [socket_valid |-> TRUE,
        state |-> "MHD_CONNECTION_HEADERS_SENDING",
        sk_corked |-> FALSE,
        sk_nodelay |-> FALSE,
        epoll_write_ready |-> build.EPOLL_SUPPORT,
        resp_sender |-> IF daemon_options.MHD_USE_TLS
                        THEN "MHD_resp_sender_std"
                        ELSE "MHD_resp_sender_sendfile",
        response_write_position |-> 0]
  /\ sock = [corked |-> FALSE, nodelay |-> FALSE]
  /\ buf_pos = 0
  /\ wire = <<>>
  /\ last = [fn |-> "none", ret |-> Ssize(0), runs |-> <<>>, calls |-> <<>>,
             xfers |-> <<>>, options |-> "none", push_data |-> FALSE,
             req |-> 0, header_size |-> 0, before |-> connection, sock_before |-> sock]

\* the outcomes the data-transfer primitive of invocation x can report for
\* the length it is offered
OutcomesOf(x) ==
  CASE x.prim = "gnutls_record_send" -> TlsOutcomes(x.len)
    [] x.prim \in {"MHD_send4_", "sendmsg"} -> SocketOutcomes(x.len)
    [] x.prim = "sendfile" -> SendfileOutcomes(build.sendfile, x.len)

\* an environment in which every primitive succeeds, taking no byte: a call
\* under it shows which data-transfer primitive the call invokes, and with
\* which length
Probe == [ok_pre |-> TRUE, ok_post |-> TRUE, out |-> XferOk(0)]

\* the outcomes among which the environment chooses for the call probed by
\* r0; on an invalid socket handle every primitive fails with EBADF
Offered(r0) ==
  IF r0.xfers = <<>> THEN {XferOk(0)}
  ELSE IF ~connection.socket_valid THEN {XferFail("EBADF", 0)}
  ELSE OutcomesOf(r0.xfers[1])

HookCalled(r, hook) == \E i \in 1..Len(r.calls) : r.calls[i].hook = hook

\* the answer of the kernel to a mode-setting primitive that the call r
\* never invokes is fixed; on an invalid socket handle the primitive fails
EnvFits(r, env) ==
  /\ ~HookCalled(r, "pre") => env.ok_pre
  /\ ~HookCalled(r, "post") => env.ok_post
  /\ (~connection.socket_valid /\ HookCalled(r, "pre")) => ~env.ok_pre
  /\ (~connection.socket_valid /\ HookCalled(r, "post")) => ~env.ok_post

Envs(outs) == [ok_pre : BOOLEAN, ok_post : BOOLEAN, out : outs]

\* effect of the mode-setting primitive invocations on the kernel's socket
RECURSIVE ApplyCalls(_, _)
ApplyCalls(s, calls) ==
  IF calls = <<>> THEN s
  ELSE LET p == Head(calls)
           s1 == IF ~p.ok THEN s
                 ELSE IF p.prim = "MHD_socket_cork_"
                      THEN [s EXCEPT !.corked = p.on]
                      ELSE [s EXCEPT !.nodelay = p.on]
       IN  ApplyCalls(s1, Tail(calls))

\* bytes the socket took from the buffers it was offered
RECURSIVE Delivered(_)
Delivered(xfers) ==
  IF xfers = <<>> THEN <<>>
  ELSE LET x == Head(xfers)
       IN  (IF x.out.ok THEN SubSeq(x.data, 1, x.out.n) ELSE <<>>)
           \o Delivered(Tail(xfers))

\* number of bytes by which the caller advances after a call
Advance(ret) == IF IsCount(ret) THEN ret.n ELSE 0

\* the record of a call: the entry point fn, the options argument it was
\* given ("none" for the entry points without one), the push flag the caller
\* asks for, the byte count req the caller asks it to send (header_size
\* bytes of it as the header of MHD_send_on_connection2_), its results and
\* the connection and the socket before it
Record(fn, options, push_data, req, r) ==
  [fn |-> fn, ret |-> r.ret, runs |-> r.runs, calls |-> r.calls,
   xfers |-> r.xfers, options |-> options, push_data |-> push_data, req |-> req,
   header_size |-> 0,
   before |-> connection, sock_before |-> sock]

\* the caller sends the not yet sent suffix of Stream with some policy
SendBuffer ==
  /\ buf_pos < BufLen
  /\ \E options \in SendOptions :
     \E env \in Envs(Offered(MHD_send_on_connection_(connection,
                       SubSeq(Stream, buf_pos + 1, BufLen), options, Probe))) :
       LET buffer == SubSeq(Stream, buf_pos + 1, BufLen)
           r == MHD_send_on_connection_(connection, buffer, options, env)
       IN  /\ EnvFits(r, env)
           /\ connection' = r.conn
           /\ sock' = ApplyCalls(sock, r.calls)
           /\ wire' = wire \o Delivered(r.xfers)
           /\ buf_pos' = buf_pos + Advance(r.ret)
           /\ last' = Record("MHD_send_on_connection_", options,
                             PushData(options, Len(buffer)), Len(buffer), r)
  /\ UNCHANGED <<build, daemon_options, response>>

\* the caller sends the not yet sent suffix of Stream as a header and a body
SendHeaderThenBuffer ==
  /\ buf_pos < BufLen
  /\ \E header_size \in 1..(BufLen - buf_pos) :
     \E env \in Envs(Offered(MHD_send_on_connection2_(connection,
                       SubSeq(Stream, buf_pos + 1, buf_pos + header_size),
                       SubSeq(Stream, buf_pos + header_size + 1, BufLen), Probe))) :
       LET header == SubSeq(Stream, buf_pos + 1, buf_pos + header_size)
           buffer == SubSeq(Stream, buf_pos + header_size + 1, BufLen)
           r == MHD_send_on_connection2_(connection, header, buffer, env)
       IN  /\ EnvFits(r, env)
           /\ connection' = r.conn
           /\ sock' = ApplyCalls(sock, r.calls)
           /\ wire' = wire \o Delivered(r.xfers)
           /\ buf_pos' = buf_pos + Advance(r.ret)
           /\ last' = [Record("MHD_send_on_connection2_", "none", TRUE,
                              Len(header) + Len(buffer), r)
                         EXCEPT !.header_size = Len(header)]
  /\ UNCHANGED <<build, daemon_options, response>>

\* once the header is sent, the caller sends the next range of the file
\* while the response is sent by sendfile() (lines 566-567) and bytes are
\* left; it advances response_write_position by the count returned
SendFile ==
  /\ buf_pos = BufLen
  /\ connection.resp_sender = "MHD_resp_sender_sendfile"
  /\ ~tls_conn
  /\ connection.response_write_position < response.total_size
  /\ \E env \in Envs(Offered(MHD_send_sendfile_(connection, Probe))) :
       LET r == MHD_send_sendfile_(connection, env)
       IN  /\ EnvFits(r, env)
           /\ connection' = [r.conn EXCEPT !.response_write_position =
                                               @ + Advance(r.ret)]
           /\ sock' = ApplyCalls(sock, r.calls)
           /\ last' = Record("MHD_send_sendfile_", "none", TRUE,
                             response.total_size
                               - connection.response_write_position, r)
  /\ UNCHANGED <<build, daemon_options, response, buf_pos, wire>>

\* once the header is sent and the response is sent by the standard sender,
\* the caller sends the rest of the body, read into a buffer of at most
\* BufLen bytes, through MHD_send_on_connection_
SendBodyStd ==
  /\ buf_pos = BufLen
  /\ connection.resp_sender = "MHD_resp_sender_std"
  /\ connection.response_write_position < response.total_size
  /\ response.total_size - connection.response_write_position <= BufLen
  /\ \E env \in Envs(Offered(MHD_send_on_connection_(connection,
           [i \in 1..(response.total_size - connection.response_write_position)
              |-> 0], "MHD_SSO_PUSH_DATA", Probe))) :
       LET left == response.total_size - connection.response_write_position
           buffer == [i \in 1..left |-> 0]
           r == MHD_send_on_connection_(connection, buffer,
                                        "MHD_SSO_PUSH_DATA", env)
       IN  /\ EnvFits(r, env)
           /\ connection' = [r.conn EXCEPT !.response_write_position =
                                               @ + Advance(r.ret)]
           /\ sock' = ApplyCalls(sock, r.calls)
           /\ last' = Record("MHD_send_on_connection_", "MHD_SSO_PUSH_DATA",
                             TRUE, left, r)
  /\ UNCHANGED <<build, daemon_options, response, buf_pos, wire>>

\* the event loop learns from epoll that the socket is writable again
EpollWriteReady ==
  /\ build.EPOLL_SUPPORT
  /\ ~connection.epoll_write_ready
  /\ connection' = [connection EXCEPT !.epoll_write_ready = TRUE]
  /\ UNCHANGED <<build, daemon_options, response, sock, buf_pos, wire, last>>

Next ==
  \/ SendBuffer
  \/ SendHeaderThenBuffer
  \/ SendFile
  \/ SendBodyStd
  \/ EpollWriteReady

Spec == Init /\ [][Next]_vars

----------------------------------------------------------------------------
(* The dispatcher on a connection that is closed in the header phase *)

\* the configurations of the dispatcher, each with the one file setup
InitPolicy ==
  /\ Init
  /\ build.sendfile = PlainFile.sendfile
  /\ daemon_options.MHD_USE_THREAD_PER_CONNECTION = PlainFile.thr_p_c
  /\ response = [fd_off |-> PlainFile.fd_off, total_size |-> PlainFile.total_size]

\* the connection is marked closed
MarkClosed ==
  /\ connection.state # "MHD_CONNECTION_CLOSED"
  /\ connection' = [connection EXCEPT !.state = "MHD_CONNECTION_CLOSED"]
  /\ UNCHANGED <<build, daemon_options, response, sock, buf_pos, wire, last>>

\* the socket handle of the connection becomes MHD_INVALID_SOCKET
InvalidateSocket ==
  /\ connection.socket_valid
  /\ connection' = [connection EXCEPT !.socket_valid = FALSE]
  /\ UNCHANGED <<build, daemon_options, response, sock, buf_pos, wire, last>>

NextClose ==
  \/ SendBuffer
  \/ SendHeaderThenBuffer
  \/ MarkClosed
  \/ InvalidateSocket

SpecClose == InitPolicy /\ [][NextClose]_vars

----------------------------------------------------------------------------
(* The resolution of the send policy: MHD_send_on_connection_ called with  *)
(* buffers of the sizes around the threshold of MHD_SSO_HDR_CORK           *)

HeaderSizes == {1023, 1024, 1025, MaxHeader}

\* one buffer of each size
SizedBuffers == [n \in HeaderSizes |-> [i \in 1..n |-> 0]]

\* the caller sends a buffer of one of the sizes with one of the policies
SendSized ==
  /\ \E buffer_size \in HeaderSizes, options \in SendOptions :
       LET buffer == SizedBuffers[buffer_size]
           r0 == MHD_send_on_connection_(connection, buffer, options, Probe)
       IN  \E env \in Envs(Offered(r0)) :
             LET r == MHD_send_on_connection_(connection, buffer, options, env)
             IN  /\ EnvFits(r, env)
                 /\ connection' = r.conn
                 /\ sock' = ApplyCalls(sock, r.calls)
                 /\ last' = Record("MHD_send_on_connection_", options,
                                   PushData(options, buffer_size), buffer_size, r)
  /\ UNCHANGED <<build, daemon_options, response, buf_pos, wire>>

SpecPolicy == InitPolicy /\ [][SendSized]_vars

----------------------------------------------------------------------------
(* Properties *)

Called == last.fn # "none"

\* the first (and only) data-transfer primitive invocation of the last call
LastXfer == last.xfers[1]

CallsOf(l) == {l.calls[i] : i \in 1..Len(l.calls)}
RunsOf(l) == {l.runs[i] : i \in 1..Len(l.runs)}
XfersOf(l) == {l.xfers[i] : i \in 1..Len(l.xfers)}

\* C1: on a plaintext connection, when the caller sends the not yet sent
\* suffix of Stream, starting each call at the sum of the counts returned
\* so far (buf_pos), the bytes the peer has received are the prefix of
\* Stream of exactly that length: no byte is duplicated or missing, and the
\* peer has all of Stream exactly when the counts sum to its length.
C1_StreamSentExactlyOnce ==
  ~tls_conn =>
    /\ wire = SubSeq(Stream, 1, buf_pos)
    /\ (wire = Stream) <=> (buf_pos = BufLen)

\* C1 witness: Stream was completed by a MHD_send_on_connection_ call on a
\* plaintext connection that took over after an earlier partial transfer.
C1_Witness ==
  /\ ~tls_conn
  /\ last.fn = "MHD_send_on_connection_"
  /\ IsCount(last.ret) /\ 0 < last.ret.n /\ last.ret.n < BufLen
  /\ LastXfer.prim = "MHD_send4_"
  /\ LastXfer.data = SubSeq(Stream, BufLen - last.ret.n + 1, BufLen)
  /\ wire = Stream
  /\ buf_pos = BufLen

\* C2: every value returned by an entry point is a byte count >= 0 or one
\* of the fixed outcomes (retry, connection reset, not connected, bad
\* descriptor); no raw result of a primitive is returned.
C2_OnlyFixedOutcomes ==
  Called => IsCount(last.ret) \/ IsRetry(last.ret) \/ IsFatal(last.ret)

\* errors of the interruption class and of the would-block class
TransientErrors == {"EINTR", "EAGAIN", "GNUTLS_E_INTERRUPTED", "GNUTLS_E_AGAIN"}

\* C3: when the data-transfer primitive of a call fails with an interrupted
\* or would-block error, the call returns neither a fatal outcome nor any
\* other failure value: it returns the retry outcome (or the count of the
\* partial progress that the primitive reported with the error).
C3_TransientGivesRetry ==
  \A x \in XfersOf(last) :
    (~x.out.ok /\ x.out.err \in TransientErrors) =>
      /\ ~IsFatal(last.ret)
      /\ ~IsRaw(last.ret)
      /\ IsRetry(last.ret) \/ (x.out.n > 0 /\ last.ret = Ssize(x.out.n))

\* C4: with a cork primitive, a MHD_send_on_connection_ call on a corked
\* connection whose policy resolves to push and which transfers the full
\* requested length leaves the connection uncorked (cork-off issued,
\* sk_corked false) whenever the mode-setting primitive succeeds; on TLS
\* and plaintext connections, with or without MSG_MORE.
C4_FullPushUncorks ==
  ( /\ build.MHD_TCP_CORK_NOPUSH
    /\ last.fn = "MHD_send_on_connection_"
    /\ last.before.sk_corked
    /\ last.push_data
    /\ IsCount(last.ret) /\ last.ret.n = last.req
    /\ \A p \in CallsOf(last) : p.ok )
  => /\ ~connection.sk_corked
     /\ \E p \in CallsOf(last) : p.prim = "MHD_socket_cork_" /\ ~p.on

\* the mode a hook invocation wants, as the value of the cached flag that
\* the build uses (sk_corked with a cork primitive, sk_nodelay without)
WantedFlag(run) ==
  IF build.MHD_TCP_CORK_NOPUSH THEN ~run.push_data ELSE run.push_data

CachedFlag(c) ==
  IF build.MHD_TCP_CORK_NOPUSH THEN c.sk_corked ELSE c.sk_nodelay

\* C5: no hook invokes the mode-setting primitive when the cached flag
\* already equals the mode the hook wants: every invocation was made with
\* a cached flag different from the mode requested, and a pre-hook that
\* found the flag equal to the mode it wants invoked nothing.
C5_NoRedundantModeSet ==
  /\ \A p \in CallsOf(last) : p.cached # p.on
  /\ \A run \in RunsOf(last) :
       (run.hook = "pre" /\ WantedFlag(run) = CachedFlag(last.before)) =>
         ~\E p \in CallsOf(last) : p.hook = "pre"

\* C5 witness: a pre-hook that wanted the connection corked found it corked
\* already, on a path where the hook is not a no-op, and invoked nothing.
C5_Witness ==
  /\ build.MHD_TCP_CORK_NOPUSH
  /\ last.before.sk_corked
  /\ \E run \in RunsOf(last) :
       /\ run.hook = "pre" /\ ~run.push_data
       /\ ~(build.MHD_USE_MSG_MORE /\ run.plain_send)
  /\ last.calls = <<>>

\* number of actual changes of the socket's buffering mode between s1 and s2
ModeChanges(s1, s2) ==
  (IF s1.corked # s2.corked THEN 1 ELSE 0)
  + (IF s1.nodelay # s2.nodelay THEN 1 ELSE 0)

FailedCalls(l) == {i \in 1..Len(l.calls) : ~l.calls[i].ok}

\* C6 as stated: in every call the number of invocations of the
\* mode-setting primitive is at most the number of actual changes of the
\* socket's buffering mode in that call (so the totals over any sequence
\* of calls compare the same way), and it is never invoked in a call in
\* which the mode stays unchanged.
C6_InvocationsAtMostChanges ==
  Len(last.calls) <= ModeChanges(last.sock_before, sock)

\* C6 amended: in every call the number of invocations of the mode-setting
\* primitive is at most the number of actual changes of the socket's
\* buffering mode plus the number of invocations that failed: every
\* invocation that succeeds is a mode transition, and the primitive is
\* invoked at most once per call.
C6_InvocationsAtMostChangesAndFailures ==
  /\ Len(last.calls) <= ModeChanges(last.sock_before, sock)
                          + Cardinality(FailedCalls(last))
  /\ Len(last.calls) <= 1

\* C6 witness: calls with alternating policies: this call invoked the
\* primitive with success to leave the mode the previous policy set.
C6_Witness ==
  /\ Len(last.calls) = 1
  /\ last.calls[1].ok
  /\ ModeChanges(last.sock_before, sock) = 1
  /\ IF build.MHD_TCP_CORK_NOPUSH THEN last.sock_before.corked /\ ~sock.corked
                                  ELSE last.sock_before.nodelay /\ ~sock.nodelay

\* the cached flag that the primitive prim sets
FlagOf(c, prim) == IF prim = "MHD_socket_cork_" THEN c.sk_corked ELSE c.sk_nodelay

ModePrimitives == {"MHD_socket_cork_", "MHD_socket_set_nodelay_"}

\* the flag changes only in a call with a successful invocation for the new value
C7_ChangesOnlyOnSuccess ==
  \A prim \in ModePrimitives :
    FlagOf(connection, prim) # FlagOf(last.before, prim) =>
      \E p \in CallsOf(last) :
        p.prim = prim /\ p.ok /\ p.on = FlagOf(connection, prim)

\* a successful invocation sets the flag to the mode requested; a failed
\* one leaves the flag as it was
C7_FlagFollowsResult ==
  \A p \in CallsOf(last) :
    FlagOf(connection, p.prim) = (IF p.ok THEN p.on ELSE p.cached)

\* a failed invocation does not change the value returned
C7_NoErrorReported ==
  (FailedCalls(last) # {} /\ last.xfers # <<>> /\ LastXfer.out.ok) =>
    last.ret = Ssize(LastXfer.out.n)

\* after a failed invocation by a hook, the same hook invoked with the same
\* arguments in the next call invokes the primitive again for the same mode
C7_NextCallRetries ==
  \A i \in FailedCalls(last) :
    \A run \in RunsOf(last) :
      (run.hook = last.calls[i].hook /\ run \in RunsOf(last')) =>
        \E p \in CallsOf(last') :
          /\ p.hook = run.hook
          /\ p.prim = last.calls[i].prim
          /\ p.on = last.calls[i].on

\* C7: the cached flag (sk_corked or sk_nodelay) changes only in a hook
\* call whose mode-setting primitive reported success, and then to the mode
\* requested; when the primitive fails the flag is left unchanged, no error
\* is reported, and the next call that wants the same mode invokes the
\* primitive again.
C7_CacheUpdatedOnlyOnSuccess ==
  /\ [](C7_ChangesOnlyOnSuccess /\ C7_FlagFollowsResult /\ C7_NoErrorReported)
  /\ [][C7_NextCallRetries]_vars

\* C7 witness: the primitive failed in the previous call, the flag was left
\* unchanged, the transfer went on and its count was returned.
C7_Witness ==
  /\ FailedCalls(last) # {}
  /\ \A p \in CallsOf(last) : FlagOf(connection, p.prim) = FlagOf(last.before, p.prim)
  /\ IsCount(last.ret) /\ last.ret.n > 0

\* C8: once the strategy tag of the connection is MHD_resp_sender_std, no
\* call of any entry point sets it back to MHD_resp_sender_sendfile.
C8_DowngradeIsPermanent ==
  [][connection.resp_sender = "MHD_resp_sender_std"
       => connection'.resp_sender = "MHD_resp_sender_std"]_vars

\* C8 witness: a MHD_send_sendfile_ call has downgraded the connection and a
\* later call of an entry point has transferred bytes of the body.
C8_Witness ==
  /\ ~tls_conn
  /\ last.before.resp_sender = "MHD_resp_sender_std"
  /\ connection.resp_sender = "MHD_resp_sender_std"
  /\ last.fn = "MHD_send_on_connection_"
  /\ IsCount(last.ret) /\ last.ret.n > 0
  /\ connection.response_write_position > last.before.response_write_position

\* C9: with the caller advancing response_write_position by every count
\* returned and leaving it unchanged on every failure outcome, the
\* position never decreases and never exceeds the total size of the
\* response, because every count MHD_send_sendfile_ returns is at most the
\* number of bytes that were left.
C9_WritePositionMonotoneAndBounded ==
  /\ connection.response_write_position >= 0
  /\ connection.response_write_position <= response.total_size
  /\ connection.response_write_position >= last.before.response_write_position
  /\ (last.fn = "MHD_send_sendfile_" /\ IsCount(last.ret)) =>
       /\ last.ret.n <= last.req
       /\ connection.response_write_position
            = last.before.response_write_position + last.ret.n
  /\ (last.fn = "MHD_send_sendfile_" /\ ~IsCount(last.ret)) =>
       connection.response_write_position = last.before.response_write_position

\* C9 witness: a sendfile() variant that reports partial progress together
\* with a failure returned a count smaller than the bytes left, and the
\* position advanced by that count.
C9_Witness ==
  /\ last.fn = "MHD_send_sendfile_"
  /\ last.xfers # <<>>
  /\ ~LastXfer.out.ok
  /\ connection.response_write_position > last.before.response_write_position
  /\ IsCount(last.ret) /\ 0 < last.ret.n /\ last.ret.n < last.req

\* the absolute file offset of the last call exceeded the largest offset
OffsetWasTooBig ==
  /\ last.fn = "MHD_send_sendfile_"
  /\ last.before.response_write_position + response.fd_off > OFF_T_MAX

\* C10: when the absolute file offset (fd_off + response_write_position)
\* exceeds the largest representable offset, MHD_send_sendfile_ invokes no
\* zero-copy primitive, transfers no byte, sets the strategy tag to
\* MHD_resp_sender_std and returns the retry outcome, which is not fatal.
C10_OffsetOverflowDowngrades ==
  OffsetWasTooBig =>
    /\ last.xfers = <<>>
    /\ connection.response_write_position = last.before.response_write_position
    /\ connection.resp_sender = "MHD_resp_sender_std"
    /\ last.ret = MHD_ERR_AGAIN_
    /\ ~IsFatal(last.ret)

\* C10 witness: a call made with an absolute offset beyond the largest one,
\* while the connection still used sendfile().
C10_Witness ==
  /\ OffsetWasTooBig
  /\ last.before.resp_sender = "MHD_resp_sender_sendfile"

\* errno values of a connection reset by the peer or of a broken pipe
ResetErrors == {"ENOTCONN", "EPIPE"}

\* C11: on every platform variant of MHD_send_sendfile_, when sendfile()
\* fails because the connection is not connected or the pipe is broken, the
\* call returns MHD_ERR_CONNRESET_ and leaves the strategy tag unchanged.
C11_ResetIsFatalNotDowngrade ==
  ( /\ last.fn = "MHD_send_sendfile_"
    /\ last.xfers # <<>>
    /\ ~LastXfer.out.ok
    /\ LastXfer.out.err \in ResetErrors )
  => /\ last.ret = MHD_ERR_CONNRESET_
     /\ connection.resp_sender = last.before.resp_sender

\* C12: MHD_send_on_connection_ resolves the options to the push flag it
\* gives to the pre-hook (and, with MSG_MORE, to the flag of the send) as:
\* MHD_SSO_PUSH_DATA push, MHD_SSO_PREFER_BUFF no push, MHD_SSO_HDR_CORK
\* push if and only if the buffer size is strictly greater than 1024.
C12_PolicyResolution ==
  (last.fn = "MHD_send_on_connection_" /\ last.runs # <<>>) =>
    LET push == \/ last.options = "MHD_SSO_PUSH_DATA"
                \/ last.options = "MHD_SSO_HDR_CORK" /\ last.req > 1024
    IN  /\ last.runs[1].hook = "pre"
        /\ last.runs[1].push_data = push
        /\ (build.MHD_USE_MSG_MORE /\ ~tls_conn /\ last.xfers # <<>>) =>
             (LastXfer.flags = "MSG_MORE") = ~push

\* C12 witness: a header of exactly 1024 bytes sent with MHD_SSO_HDR_CORK
\* was buffered: the pre-hook was told not to push and corked the socket.
C12_Witness ==
  /\ last.fn = "MHD_send_on_connection_"
  /\ last.options = "MHD_SSO_HDR_CORK"
  /\ last.req = 1024
  /\ last.runs # <<>>
  /\ ~last.runs[1].push_data
  /\ build.MHD_TCP_CORK_NOPUSH
  /\ connection.sk_corked

\* C13: MHD_send_on_connection_ and MHD_send_on_connection2_, called on a
\* connection whose socket handle is invalid or whose state is
\* MHD_CONNECTION_CLOSED, return MHD_ERR_NOTCONN_ without invoking the
\* mode-setting primitive or a data-transfer primitive and without
\* modifying a field of the connection.
C13_ClosedGivesNotConn ==
  [][ ( /\ last' # last
        /\ last'.fn \in {"MHD_send_on_connection_", "MHD_send_on_connection2_"}
        /\ \/ ~connection.socket_valid
           \/ connection.state = "MHD_CONNECTION_CLOSED" )
      => /\ last'.ret = MHD_ERR_NOTCONN_
         /\ last'.calls = <<>>
         /\ last'.xfers = <<>>
         /\ connection' = connection ]_vars

\* the header the caller gave to the last call of MHD_send_on_connection2_
LastHeader ==
  SubSeq(Stream, Len(Stream) - last.req + 1,
         Len(Stream) - last.req + last.header_size)

\* MHD_send_on_connection2_ was called where it cannot use sendmsg() / writev()
HeaderOnlyCall ==
  /\ last.fn = "MHD_send_on_connection2_"
  /\ tls_conn \/ ~build.HAVE_SENDMSG_OR_WRITEV

\* C14: on a TLS connection, or in a build without sendmsg() and writev(),
\* MHD_send_on_connection2_ transmits bytes of the header only, through
\* MHD_send_on_connection_ with MHD_SSO_HDR_CORK: the only transfer
\* primitive invoked is the one of MHD_send_on_connection_, it is offered
\* a prefix of the header and no byte of the body, the push flag is the one
\* MHD_SSO_HDR_CORK resolves to for the header, and the count returned is
\* at most the header length.
C14_HeaderOnlyWithoutScatterGather ==
  HeaderOnlyCall =>
    /\ \A x \in XfersOf(last) :
         /\ x.prim = (IF tls_conn THEN "gnutls_record_send" ELSE "MHD_send4_")
         /\ x.len <= last.header_size
         /\ x.data = SubSeq(LastHeader, 1, x.len)
    /\ \A run \in RunsOf(last) :
         run.hook = "pre" => run.push_data = (last.header_size > 1024)
    /\ IsCount(last.ret) => last.ret.n <= last.header_size

\* C14 witness: a call on a TLS connection with a non-empty body sent the
\* whole header and nothing of the body.
C14_Witness ==
  /\ HeaderOnlyCall
  /\ tls_conn
  /\ last.header_size < last.req
  /\ last.ret = Ssize(last.header_size)
  /\ LastXfer.data = LastHeader

\* C15: a call of an entry point invokes a data-transfer primitive (send,
\* gnutls_record_send, sendmsg / writev, sendfile) at most once, whatever
\* its result; the result is reported to the caller: the count of a
\* successful transfer, partial or not, is the value returned, and after a
\* failure without progress no count is returned.
C15_NoInternalRetry ==
  /\ Len(last.xfers) <= 1
  /\ last.xfers # <<>> =>
       /\ LastXfer.out.ok => last.ret = Ssize(LastXfer.out.n)
       /\ (~LastXfer.out.ok /\ LastXfer.out.n = 0) => ~IsCount(last.ret)

\* C15 witness: the primitive took only a part of what it was offered and
\* the call returned that count after the one invocation.
C15_Witness ==
  /\ Len(last.xfers) = 1
  /\ LastXfer.out.ok
  /\ 0 < LastXfer.out.n /\ LastXfer.out.n < LastXfer.len
  /\ last.ret = Ssize(LastXfer.out.n)

\* number of bytes the caller intended the last call to send
IntendedPayload == IF HeaderOnlyCall THEN last.header_size ELSE last.req

\* the caller's policy for the last call asks for a push
PushRequested ==
  IF HeaderOnlyCall THEN last.header_size > 1024 ELSE last.push_data

\* C16: with a cork primitive, cork-on is requested by the pre-hook only
\* and cork-off by the post-hook only; cork-off is requested only after the
\* transfer primitive of the call returned success for the complete
\* intended payload with push requested (MHD_send_sendfile_: all bytes
\* left of the response; MHD_send_on_connection2_: header plus body), never
\* after a partial or a failed transfer.
C16_CorkOffOnlyAfterCompletePush ==
  \A p \in CallsOf(last) :
    p.prim = "MHD_socket_cork_" =>
      /\ p.on => p.hook = "pre"
      /\ ~p.on =>
           /\ p.hook = "post"
           /\ PushRequested
           /\ last.xfers # <<>>
           /\ LastXfer.out.ok
           /\ LastXfer.out.n = IntendedPayload

\* C17: in MHD_send_on_connection_ the flush flag given to the post-hook
\* is true if and only if the policy resolved to push and the count
\* transferred equals the full length the caller requested; a transfer of
\* exactly the length a larger request was clamped to does not request a
\* flush.
C17_FlushOnlyForFullRequestedLength ==
  last.fn = "MHD_send_on_connection_" =>
    \A run \in RunsOf(last) :
      run.hook = "post" =>
        run.push_data = (last.push_data /\ last.ret = Ssize(last.req))

\* MHD_send_on_connection2_ was called where it uses sendmsg() / writev()
ScatterGatherCall ==
  /\ last.fn = "MHD_send_on_connection2_"
  /\ ~tls_conn
  /\ build.HAVE_SENDMSG_OR_WRITEV

\* the header followed by the body the caller gave to the last call
LastHeaderAndBody == SubSeq(Stream, Len(Stream) - last.req + 1, Len(Stream))

\* C18: on a plaintext connection with sendmsg() or writev(),
\* MHD_send_on_connection2_ calls the pre-hook with push-now, issues exactly
\* one scatter-gather call covering the header followed by the body, returns
\* a count of at most header length plus body length whose bytes are a
\* prefix of the header followed by the body, and requests a flush in the
\* post-hook if and only if the count returned equals header length plus
\* body length.
C18_ScatterGatherSingleTransfer ==
  ScatterGatherCall =>
    /\ last.runs[1] = HookRun("pre", TRUE, TRUE)
    /\ Len(last.xfers) = 1
    /\ LastXfer.prim = "sendmsg"
    /\ LastXfer.len = last.req
    /\ LastXfer.data = LastHeaderAndBody
    /\ IsCount(last.ret) =>
         /\ last.ret.n <= last.req
         /\ wire = SubSeq(Stream, 1, Len(Stream) - last.req)
                     \o SubSeq(LastHeaderAndBody, 1, last.ret.n)
    /\ (\E run \in RunsOf(last) : run.hook = "post" /\ run.push_data)
         <=> last.ret = Ssize(last.req)

\* C18 witness: one scatter-gather call took the whole header and a part of
\* the body; no flush was requested.
C18_Witness ==
  /\ ScatterGatherCall
  /\ IsCount(last.ret)
  /\ last.header_size < last.ret.n /\ last.ret.n < last.req
  /\ \E run \in RunsOf(last) : run.hook = "post" /\ ~run.push_data

\* sendfile() of a variant that reports partial progress together with a
\* failure failed with a transient error in the last call
PartialProgressFailure ==
  /\ last.fn = "MHD_send_sendfile_"
  /\ last.xfers # <<>>
  /\ ~LastXfer.out.ok
  /\ \/ build.sendfile = "freebsd" /\ LastXfer.out.err \in {"EAGAIN", "EINTR", "EBUSY"}
     \/ build.sendfile = "darwin" /\ LastXfer.out.err \in {"EAGAIN", "EINTR"}

\* C19: on the FreeBSD and Darwin variants, when sendfile() fails with a
\* transient error (would-block, interrupted, and busy on FreeBSD),
\* MHD_send_sendfile_ returns the partial byte count as a count if it is
\* not zero and the retry outcome only if it is zero; the strategy tag is
\* not changed in either case.
C19_PartialProgressPreserved ==
  PartialProgressFailure =>
    /\ LastXfer.out.n # 0 => last.ret = Ssize(LastXfer.out.n)
    /\ LastXfer.out.n = 0 => last.ret = MHD_ERR_AGAIN_
    /\ connection.resp_sender = last.before.resp_sender

\* C19 witness: the FreeBSD sendfile() failed with EBUSY after it had sent a
\* part of the range, and the call returned the count of that part.
C19_Witness ==
  /\ PartialProgressFailure
  /\ build.sendfile = "freebsd"
  /\ LastXfer.out.err = "EBUSY"
  /\ LastXfer.out.n > 0
  /\ last.ret = Ssize(LastXfer.out.n)
  /\ connection.resp_sender = "MHD_resp_sender_sendfile"

\* C20: MHD_send_sendfile_ checks the offset before it invokes the
\* pre-hook: a call that returns the downgrade outcome because the absolute
\* offset exceeds the largest representable offset has invoked no
\* mode-setting primitive and leaves sk_corked and sk_nodelay unchanged,
\* with the cork primitive and with the no-delay primitive.
C20_OffsetCheckBeforePreHook ==
  OffsetWasTooBig =>
    /\ last.calls = <<>>
    /\ connection.sk_corked = last.before.sk_corked
    /\ connection.sk_nodelay = last.before.sk_nodelay

\* the last call of MHD_send_sendfile_ invoked sendfile()
SendfileInvoked == last.fn = "MHD_send_sendfile_" /\ last.xfers # <<>>

\* C21: the length MHD_send_sendfile_ passes to sendfile() is the smaller
\* of the bytes left (total size minus write position) and the chunk size,
\* 0x200000 with one thread per connection and 0x20000 otherwise; the
\* offset passed is the base offset of the file plus the write position;
\* and the count returned never exceeds that length.
C21_SendfileLengthAndOffset ==
  SendfileInvoked =>
    LET left == response.total_size - last.before.response_write_position
        chunk == IF daemon_options.MHD_USE_THREAD_PER_CONNECTION
                 THEN 2097152 ELSE 131072
    IN  /\ LastXfer.len = (IF left < chunk THEN left ELSE chunk)
        /\ LastXfer.off = response.fd_off + last.before.response_write_position
        /\ IsCount(last.ret) => last.ret.n <= LastXfer.len

\* C21 witness: with more bytes left than the chunk size, sendfile() was
\* offered one chunk and the call returned the count of a full chunk.
C21_Witness ==
  /\ SendfileInvoked
  /\ response.total_size - last.before.response_write_position > LastXfer.len
  /\ last.ret = Ssize(LastXfer.len)

\* the transfer primitive of the call recorded in l failed with would-block
WouldBlock(l) ==
  /\ l.xfers # <<>>
  /\ ~l.xfers[1].out.ok
  /\ l.xfers[1].out.err \in {"EAGAIN", "GNUTLS_E_AGAIN"}

\* a plaintext or zero-copy transfer of the call recorded in l sent fewer
\* bytes than it was offered
ShortTransfer(l) ==
  /\ l.xfers # <<>>
  /\ l.xfers[1].out.ok
  /\ l.xfers[1].prim # "gnutls_record_send"
  /\ l.xfers[1].out.n < l.xfers[1].len

\* C22: with EPOLL_SUPPORT, for the three entry points, the write-ready
\* flag of the connection is cleared on return if and only if the call
\* found the socket unable to accept more bytes: the primitive failed with
\* would-block, or a plaintext or zero-copy transfer sent fewer bytes than
\* it was offered; every other call (interrupted, full transfer, partial
\* TLS transfer, fatal outcome) leaves the flag unchanged.
C22_WriteReadyClearedIffSocketFull ==
  [][ (last' # last /\ build.EPOLL_SUPPORT) =>
        IF WouldBlock(last') \/ ShortTransfer(last')
        THEN ~connection'.epoll_write_ready
        ELSE connection'.epoll_write_ready = connection.epoll_write_ready ]_vars

\* the last call changed the strategy tag of the connection
TagChanged == connection.resp_sender # last.before.resp_sender

\* sendfile() of the Linux variant failed in the last call
LinuxSendfileFailed ==
  SendfileInvoked /\ build.sendfile = "linux" /\ ~LastXfer.out.ok

\* C23: the strategy tag is modified only by MHD_send_sendfile_ and only in
\* a call that returns the retry outcome: a call that returns a count,
\* MHD_ERR_CONNRESET_ or MHD_ERR_BADF_ leaves it unchanged, and
\* MHD_send_on_connection_ and MHD_send_on_connection2_ never modify it.
\* On the Linux variant a failure with EBADF returns MHD_ERR_BADF_ without
\* downgrade and every other non-transient failure downgrades.
C23_TagChangedOnlyByRetryingSendfile ==
  /\ TagChanged =>
       /\ last.fn = "MHD_send_sendfile_"
       /\ last.ret = MHD_ERR_AGAIN_
       /\ connection.resp_sender = "MHD_resp_sender_std"
  /\ (LinuxSendfileFailed /\ LastXfer.out.err = "EBADF") =>
       last.ret = MHD_ERR_BADF_ /\ ~TagChanged
  /\ (LinuxSendfileFailed /\ LastXfer.out.err \notin {"EAGAIN", "EINTR", "EBADF"}) =>
       /\ last.ret = MHD_ERR_AGAIN_
       /\ connection.resp_sender = "MHD_resp_sender_std"

\* C23 witness: sendfile() of the Linux variant failed with EINVAL and the
\* call downgraded the connection, returning the retry outcome.
C23_Witness ==
  /\ LinuxSendfileFailed
  /\ LastXfer.out.err = "EINVAL"
  /\ TagChanged
  /\ last.ret = MHD_ERR_AGAIN_

====
